---- MODULE Spec2Model ----
(***************************************************************************)
(* The polling / watermark engine of go-eth-listener                       *)
(* (services/listener/ethclient): range selection, the block, transaction  *)
(* and event walkers and the persisted watermarks.                         *)
(*                                                                         *)
(* The poll task is a sequential program; pc is its position.  The chain   *)
(* (height, logs), the providers, the handlers and the store are the       *)
(* environment: their outcomes are chosen nondeterministically.            *)
(***************************************************************************)
EXTENDS Integers, Sequences, FiniteSets, TLC

\* ------------------------------------------------------------------ bounds

\* Highest chain height of the block / transaction specification.
MaxHeight == 2

\* Number of poll cycles one behaviour runs.
MaxCycles == 3

\* ------------------------------------------------------- program constants

\* Maximum number of blocks to fetch for events.
maxBlocksForEvents == 100

\* uint32 arithmetic wraps.  TLC's integers are 32 bit signed, so the wrap is
\* taken modulo 2^30: every height of the model is far below either modulus,
\* and the same wraps (chainHeight - blockDelay below zero, toBlock + 1 at
\* the maximum) happen.
UintModulus == 2^30

maxUint32 == UintModulus - 1

U32(x) == x % UintModulus

\* int32(x) of a uint32: the upper half of the range is negative.
I32(x) == IF x >= UintModulus \div 2 THEN x - UintModulus ELSE x

VARIABLES
    \* configuration (Service fields set by New, immutable afterwards)
    blockTriggers,      \* sequence of [Name, EarliestBlock, Handler]
    txTriggers,         \* sequence of [Name, From, To, EarliestBlock, Handler]
    eventTriggers,      \* sequence of [Name, EarliestBlock, Source, Handler]
    blockDelay,
    blockSpecifier,
    earliestBlock,      \* s.earliestBlock: the override, -1 when none/consumed
    monitor,            \* a failures metric is registered
    \* environment
    horizon,            \* the heights the chain may be observed at
    chainHeight,        \* current chain height
    chainLog,           \* the logs of the chain: set of <<block, index>>
    chainTxs,           \* the transactions of the blocks: height -> sequence of [From, To]
    \* metadata store
    dbOpen,             \* s.metadataDBOpen
    dbClosed,           \* metadataDB.Close() has been called on the handle
    mu,                 \* holder of s.metadataDBMu: "free" or "closer"
    storeFaults,        \* whether a read or write of the open store may fail
    dbBlocks,           \* function: trigger name -> height (domain = stored names)
    dbTxs,              \* <<>> (key absent) or <<height>>
    dbEvents,           \* function: trigger name -> [LatestBlock, LatestEventIndex]
    dbLatestBlocks,     \* the deprecated member of the stored events metadata:
                        \* function: trigger name -> height
    dbEntriesNil,       \* the stored events metadata has no "entries" member
    \* poll task
    pc,
    cycle,
    ctxDone,
    to,
    failures,           \* failuresMetric
    \* pollBlocks locals
    mdBlocks,
    height,
    failed,
    \* pollTxs locals
    mdTxs,
    \* pollEvents / pollEventsForTrigger locals
    mdEvents,
    mdLatestBlocks,     \* md.LatestBlocks of the events walker
    toBlock,
    ti,                 \* index of the event trigger being processed
    fromBlock,
    fromEventIndex,
    events,             \* the provider's answer for the current window
    latestBlock,
    latestEventIndex,
    \* history (observations of the run, read by the properties only)
    blockCalls,         \* HandleBlock calls of this cycle: <<name, height, ok>>
    blocksFrom,         \* the from of this cycle's block walk, -1 if none
    blocksDone,         \* this cycle's block walk ran to its end
    pendingFail,        \* name -> height of the last failure not yet retried
    overrideApplied,    \* the override was consumed in this cycle (-1 or O)
    txCalls,            \* HandleTx calls of this cycle, in order: <<name, height, tx index>>
    evCalls,            \* HandleEvent calls of this cycle, in order
    evQueries,          \* Events queries of this cycle, in order
    evHandled,          \* per trigger: events handled successfully, in order
    evWindow,           \* per trigger: [from, idx, to, state] of this cycle
    evPending,          \* per trigger: <<e>>, the failed event not yet retried
    migratedFrom,       \* per trigger: the height its entry was migrated from
    errs,               \* errors returned in this cycle: "select" or a walker
    walked,             \* the walkers entered in this cycle, in order
    closedUse           \* a Get or Set was executed on the closed handle

cfgVars == <<blockTriggers, txTriggers, eventTriggers, blockDelay, blockSpecifier,
             horizon, chainLog, chainTxs, storeFaults, monitor>>

lockVars == <<mu, dbClosed>>

blkVars == <<mdBlocks, height, failed>>

evtVars == <<mdEvents, mdLatestBlocks, toBlock, ti, fromBlock, fromEventIndex, events,
             latestBlock, latestEventIndex>>

blkHist == <<blockCalls, blocksFrom, blocksDone, pendingFail>>

evtHist == <<evCalls, evQueries, evHandled, evWindow, evPending, migratedFrom>>

vars == <<blockTriggers, txTriggers, eventTriggers, blockDelay, blockSpecifier,
          earliestBlock, horizon, chainHeight, chainLog, dbOpen, storeFaults, dbBlocks, dbTxs,
          dbEvents, pc, cycle, ctxDone, to, mdBlocks, height, failed, mdTxs,
          mdEvents, toBlock, ti, fromBlock, fromEventIndex, events,
          latestBlock, latestEventIndex, blockCalls, blocksFrom, blocksDone,
          pendingFail, overrideApplied, txCalls, evCalls, evQueries, evHandled,
          evWindow, evPending, monitor, dbClosed, mu, failures, errs, walked,
          closedUse, chainTxs, dbLatestBlocks, dbEntriesNil, mdLatestBlocks,
          migratedFrom>>

\* ----------------------------------------------------------------- helpers

EmptyMap == [n \in {} |-> 0]

Names(trigs) == {trigs[i].Name : i \in 1..Len(trigs)}

\* md.LatestBlocks[name] of a Go map[string]int32: a missing key reads as 0.
MapGet(m, name) == IF name \in DOMAIN m THEN m[name] ELSE 0

MapSet(m, name, v) == (name :> v) @@ m

\* The outcomes of one access to the metadata store (TRUE: no error from the
\* database itself).
StoreOutcomes == IF storeFaults THEN BOOLEAN ELSE {TRUE}

Min(S) == CHOOSE x \in S : \A y \in S : x <= y

\* monitorFailure: the counter is incremented when a metric is registered.
MonitorFailure(f) == IF monitor THEN f + 1 ELSE f

\* A caller that counts an error whatever the state of the context.
ReturnErrorAlways(w) ==
    /\ errs' = Append(errs, w)
    /\ failures' = MonitorFailure(failures)

\* pollBlocksTo, pollTxsTo, pollEventsTo: the walker returned an error,
\* which counts as a failure unless the context is done.
ReturnError(w) ==
    /\ errs' = Append(errs, w)
    /\ failures' = (IF ctxDone THEN failures ELSE MonitorFailure(failures))

\* The step returns no error.
NoError == UNCHANGED <<errs, failures>>

\* A store access that does not wait for the mutex.
MutexIgnored == TRUE

\* s.metadataDBMu.Lock() succeeds: the closer does not hold the mutex.
MutexFree == mu = "free"

\* One Get or Set under the mutex: the handle is used when the open flag is
\* set, whatever the state of the handle.
StoreAccess ==
    /\ MutexFree
    /\ closedUse' = (closedUse \/ (dbOpen /\ dbClosed))

\* ---------------------------------------------------------- range selector

\* selectHighestBlock: the block of the specifier, or chain height less delay.
\* The "latest" block is the chain head.
SelectHighestBlock(h) ==
    IF blockSpecifier # "" THEN h ELSE U32(h - blockDelay)

\* A pollTo that leaves out the transaction walker.
WalkerFromNoTxs(k) ==
    IF k <= 1 /\ Len(blockTriggers) > 0 THEN "pollBlocks"
    ELSE IF k <= 3 /\ Len(eventTriggers) > 0 THEN "pollEvents"
    ELSE "idle"

\* pollTo: pollBlocksTo, pollTxsTo, pollEventsTo in this order, each only
\* when its trigger list is not empty.  WalkerFrom(k) is the position of the
\* first walker at or after the k-th that has triggers, "idle" past the last.
WalkerFrom(k) ==
    IF k <= 1 /\ Len(blockTriggers) > 0 THEN "pollBlocks"
    ELSE IF k <= 2 /\ Len(txTriggers) > 0 THEN "pollTxs"
    ELSE IF k <= 3 /\ Len(eventTriggers) > 0 THEN "pollEvents"
    ELSE "idle"

\* The failure of a trigger left for the next walk: the height it failed at
\* in the cycle that ends, none (-1) once it was called without failing.
NextPendingFail(n) ==
    IF \E c \in blockCalls : c[1] = n /\ ~c[3]
    THEN (CHOOSE c \in blockCalls : c[1] = n /\ ~c[3])[2]
    ELSE IF \E c \in blockCalls : c[1] = n THEN -1
    ELSE pendingFail[n]

NoWindow == [from |-> -1, idx |-> -1, to |-> -1, state |-> "none"]

\* The HandleEvent calls of this cycle made for trigger n, in order.
CallsOf(n) == SelectSeq(evCalls, LAMBDA c : c.name = n)

\* The failed event of a trigger left for its next window: the event its
\* handler failed on in the cycle that ends, none once it was dispatched to
\* without failing.
NextEvPending(n) ==
    LET cs == CallsOf(n) IN
    IF cs = <<>> THEN evPending[n]
    ELSE IF ~cs[Len(cs)].ok THEN <<cs[Len(cs)].ev>>
    ELSE <<>>

\* What changes at the start of every cycle: the history of the last cycle.
ResetHistory ==
    /\ pendingFail' = [n \in DOMAIN pendingFail |-> NextPendingFail(n)]
    /\ blockCalls' = {}
    /\ blocksFrom' = -1
    /\ blocksDone' = FALSE
    /\ overrideApplied' = -1
    /\ txCalls' = <<>>
    /\ evCalls' = <<>>
    /\ evQueries' = <<>>
    /\ evWindow' = [n \in DOMAIN evWindow |-> NoWindow]
    /\ evPending' = [n \in DOMAIN evPending |-> NextEvPending(n)]

\* poll: one cycle starts.  The chain is observed at a height h of the
\* horizon, never below the last one; the provider call succeeds or fails.
\* On error with a live context poll returns; otherwise pollTo(to) runs.
Poll ==
    /\ pc = "idle"
    /\ cycle < MaxCycles
    /\ \E h \in horizon, ok \in BOOLEAN :
        /\ h >= chainHeight
        /\ chainHeight' = h
        /\ errs' = (IF ok THEN <<>> ELSE <<"select">>)
        /\ IF ~ok /\ ~ctxDone
           THEN /\ pc' = "idle"
                /\ to' = to
                /\ failures' = MonitorFailure(failures)
           ELSE /\ to' = (IF ok THEN SelectHighestBlock(h) ELSE 0)
                /\ pc' = WalkerFrom(1)
                /\ failures' = failures
    /\ cycle' = cycle + 1
    /\ walked' = <<>>
    /\ ResetHistory
    /\ UNCHANGED <<cfgVars, lockVars, closedUse, earliestBlock, dbOpen, dbBlocks,
                   dbTxs, dbEvents, dbLatestBlocks, dbEntriesNil, ctxDone, blkVars,
                   mdTxs, evtVars, evHandled, migratedFrom>>

\* ------------------------------------------------------------ block walker

\* calculateBlocksFrom: the earliest block to fetch, the metadata (reset when
\* the override applies) and the override left.
calculateBlocksFrom(md, eb) ==
    IF eb > -1
    THEN [from |-> U32(eb), md |-> [n \in DOMAIN md |-> eb - 1], eb |-> -1]
    ELSE IF DOMAIN md # {}
    THEN [from |-> Min({maxUint32} \cup {U32(md[n] + 1) : n \in DOMAIN md}),
          md |-> md, eb |-> eb]
    ELSE [from |-> 0, md |-> md, eb |-> eb]

\* A walker that runs a trigger again for blocks it has already processed.
AlreadyProcessedNever(md, name, h) == FALSE

\* A walker that runs a trigger again for the block of its watermark.
AlreadyProcessedBelow(md, name, h) == MapGet(md, name) > I32(h)

\* The trigger already processed this height: md.LatestBlocks[name] >= height.
AlreadyProcessed(md, name, h) == MapGet(md, name) >= I32(h)

\* The loop over s.blockTriggers for one height.  failing is the set of
\* triggers whose handler returns an error for this block.
RECURSIVE HandleBlockTriggers(_, _, _, _, _)
HandleBlockTriggers(i, md, fl, h, failing) ==
    IF i > Len(blockTriggers)
    THEN [md |-> md, failed |-> fl, calls |-> {}]
    ELSE LET name == blockTriggers[i].Name IN
         IF name \in fl
         THEN HandleBlockTriggers(i + 1, md, fl, h, failing)
         ELSE IF AlreadyProcessed(md, name, h)
         THEN HandleBlockTriggers(i + 1, md, fl, h, failing)
         ELSE IF name \in failing
         THEN LET r == HandleBlockTriggers(i + 1, md, fl \cup {name}, h, failing)
              IN [r EXCEPT !.calls = @ \cup {<<name, h, FALSE>>}]
         ELSE LET r == HandleBlockTriggers(i + 1, MapSet(md, name, h), fl, h, failing)
              IN [r EXCEPT !.calls = @ \cup {<<name, h, TRUE>>}]

\* pollBlocks up to the loop: getBlocksMetadata, calculateBlocksFrom and the
\* from > to test.  A failed read (closed or failing store) ends the walker.
PollBlocks ==
    /\ pc = "pollBlocks"
    /\ StoreAccess
    /\ walked' = Append(walked, "blocks")
    /\ \E getOk \in StoreOutcomes :
        IF ~(dbOpen /\ getOk)
        THEN /\ pc' = WalkerFrom(2)
             /\ ReturnError("blocks")
             /\ UNCHANGED <<earliestBlock, blkVars, blocksFrom, blocksDone,
                            overrideApplied>>
        ELSE LET r == calculateBlocksFrom(dbBlocks, earliestBlock) IN
             /\ NoError
             /\ mdBlocks' = r.md
             /\ earliestBlock' = r.eb
             /\ overrideApplied' = (IF earliestBlock > -1 THEN earliestBlock
                                    ELSE overrideApplied)
             /\ blocksFrom' = r.from
             /\ failed' = {}
             /\ height' = r.from
             /\ IF r.from > to
                THEN /\ pc' = WalkerFrom(2)
                     /\ blocksDone' = TRUE
                ELSE /\ pc' = "blockHeight"
                     /\ blocksDone' = FALSE
    /\ UNCHANGED <<cfgVars, lockVars, chainHeight, dbOpen, dbBlocks, dbTxs, dbEvents,
                   dbLatestBlocks, dbEntriesNil,
                   cycle, ctxDone, to, mdTxs, evtVars, blockCalls, pendingFail,
                   txCalls, evtHist>>

\* One height of the walk: the block is fetched (a block above the chain
\* head does not exist, and any fetch may fail), then every trigger is run.
PollBlocksHeight ==
    /\ pc = "blockHeight"
    /\ \E fetchOk \in BOOLEAN, failing \in SUBSET Names(blockTriggers) :
        IF ~(fetchOk /\ height <= chainHeight)
        THEN /\ failing = {}
             /\ pc' = WalkerFrom(2)
             /\ ReturnError("blocks")
             /\ UNCHANGED <<blkVars, blockCalls>>
        ELSE LET r == HandleBlockTriggers(1, mdBlocks, failed, height, failing) IN
             /\ NoError
             /\ mdBlocks' = r.md
             /\ failed' = r.failed
             /\ blockCalls' = blockCalls \cup r.calls
             /\ height' = height
             /\ pc' = "blockSet"
    /\ UNCHANGED <<cfgVars, lockVars, walked, closedUse, earliestBlock, chainHeight,
                   dbOpen, dbBlocks, dbTxs, dbEvents,
                   dbLatestBlocks, dbEntriesNil, cycle, ctxDone, to, mdTxs,
                   evtVars, blocksFrom, blocksDone, pendingFail, overrideApplied,
                   txCalls, evtHist>>

\* A walk that goes to the next height without persisting the map.
PollBlocksNoSet ==
    /\ pc = "blockSet"
    /\ height' = U32(height + 1)
    /\ IF U32(height + 1) <= to
       THEN /\ pc' = "blockHeight"
            /\ blocksDone' = FALSE
       ELSE /\ pc' = WalkerFrom(2)
            /\ blocksDone' = TRUE
    /\ NoError
    /\ UNCHANGED <<cfgVars, lockVars, walked, closedUse, earliestBlock, chainHeight,
                   dbOpen, dbBlocks, dbTxs, dbEvents,
                   dbLatestBlocks, dbEntriesNil, cycle, ctxDone, to, mdBlocks,
                   failed, mdTxs, evtVars, blockCalls, blocksFrom, pendingFail,
                   overrideApplied, txCalls, evtHist>>

\* setBlocksMetadata after the height, then height++ and the loop test.
PollBlocksSet ==
    /\ pc = "blockSet"
    /\ StoreAccess
    /\ \E setOk \in StoreOutcomes :
        IF ~(dbOpen /\ setOk)
        THEN /\ pc' = WalkerFrom(2)
             /\ ReturnError("blocks")
             /\ UNCHANGED <<dbBlocks, height, blocksDone>>
        ELSE /\ NoError
             /\ dbBlocks' = mdBlocks
             /\ height' = U32(height + 1)
             /\ IF U32(height + 1) <= to
                THEN /\ pc' = "blockHeight"
                     /\ blocksDone' = FALSE
                ELSE /\ pc' = WalkerFrom(2)
                     /\ blocksDone' = TRUE
    /\ UNCHANGED <<cfgVars, lockVars, walked, earliestBlock, chainHeight, dbOpen,
                   dbTxs, dbEvents,
                   dbLatestBlocks, dbEntriesNil, cycle, ctxDone, to, mdBlocks, failed, mdTxs,
                   evtVars, blockCalls, blocksFrom, pendingFail, overrideApplied,
                   txCalls, evtHist>>

\* ------------------------------------------------------ transaction walker

\* getTransactionsMetadata: LatestBlock is -1 when the key is absent.
TxLatestBlock(db) == IF db = <<>> THEN -1 ELSE db[1]

\* A nil *types.Address: the trigger has no filter on this side.
NoAddress == "nil"

\* block.Transactions() of the block at a height.
Transactions(h) == IF h \in DOMAIN chainTxs THEN chainTxs[h] ELSE <<>>

\* A filter that does not look at the recipient.
TxMatchesFromOnly(trigger, tx) == trigger.From # NoAddress => trigger.From = tx.From

\* The From and To tests of pollBlockTxs: a filter that is set must be equal
\* to the transaction's address.
TxMatches(trigger, tx) ==
    /\ trigger.From # NoAddress => trigger.From = tx.From
    /\ trigger.To # NoAddress => trigger.To = tx.To

\* The loop over block.Transactions() for one trigger, from the j-th on.
RECURSIVE DispatchTxs(_, _, _)
DispatchTxs(trigger, h, j) ==
    IF j > Len(Transactions(h)) THEN <<>>
    ELSE (IF TxMatches(trigger, Transactions(h)[j])
          THEN << <<trigger.Name, h, j>> >>
          ELSE <<>>)
         \o DispatchTxs(trigger, h, j + 1)

\* The loop over s.txTriggers of pollBlockTxs, from the i-th on: a trigger is
\* passed over when the block is below its EarliestBlock.
RECURSIVE TxDispatchFrom(_, _)
TxDispatchFrom(i, h) ==
    IF i > Len(txTriggers) THEN <<>>
    ELSE (IF h < txTriggers[i].EarliestBlock
          THEN <<>>
          ELSE DispatchTxs(txTriggers[i], h, 1))
         \o TxDispatchFrom(i + 1, h)

\* pollBlockTxs: the HandleTx calls made for the block of this height.
TxDispatch(h) == TxDispatchFrom(1, h)

\* pollTxs up to the loop.
PollTxs ==
    /\ pc = "pollTxs"
    /\ StoreAccess
    /\ walked' = Append(walked, "txs")
    /\ \E getOk \in StoreOutcomes :
        IF ~(dbOpen /\ getOk)
        THEN /\ pc' = WalkerFrom(3)
             /\ ReturnError("txs")
             /\ UNCHANGED <<earliestBlock, mdTxs, height, overrideApplied>>
        ELSE LET from == IF earliestBlock # -1 THEN U32(earliestBlock)
                         ELSE U32(TxLatestBlock(dbTxs) + 1) IN
             /\ NoError
             /\ mdTxs' = TxLatestBlock(dbTxs)
             /\ earliestBlock' = -1
             /\ overrideApplied' = (IF earliestBlock # -1 THEN earliestBlock
                                    ELSE overrideApplied)
             /\ height' = from
             /\ pc' = (IF from > to THEN WalkerFrom(3) ELSE "txHeight")
    /\ UNCHANGED <<cfgVars, lockVars, chainHeight, dbOpen, dbBlocks, dbTxs, dbEvents,
                   dbLatestBlocks, dbEntriesNil,
                   cycle, ctxDone, to, mdBlocks, failed, evtVars, blkHist, txCalls,
                   evtHist>>

\* One height: pollBlockTxs, then md.LatestBlock = height.
PollTxsHeight ==
    /\ pc = "txHeight"
    /\ \E fetchOk \in BOOLEAN :
        IF ~(fetchOk /\ height <= chainHeight)
        THEN /\ pc' = WalkerFrom(3)
             /\ ReturnError("txs")
             /\ UNCHANGED <<mdTxs, txCalls>>
        ELSE /\ NoError
             /\ txCalls' = txCalls \o TxDispatch(height)
             /\ mdTxs' = I32(height)
             /\ pc' = "txSet"
    /\ UNCHANGED <<cfgVars, lockVars, walked, closedUse, earliestBlock, chainHeight,
                   dbOpen, dbBlocks, dbTxs, dbEvents,
                   dbLatestBlocks, dbEntriesNil, cycle, ctxDone, to, blkVars,
                   evtVars, blkHist, overrideApplied, evtHist>>

\* setTransactionsMetadata after the height, then height++ and the loop test.
PollTxsSet ==
    /\ pc = "txSet"
    /\ StoreAccess
    /\ \E setOk \in StoreOutcomes :
        IF ~(dbOpen /\ setOk)
        THEN /\ pc' = WalkerFrom(3)
             /\ ReturnError("txs")
             /\ UNCHANGED <<dbTxs, height>>
        ELSE /\ NoError
             /\ dbTxs' = <<mdTxs>>
             /\ height' = U32(height + 1)
             /\ pc' = (IF U32(height + 1) <= to THEN "txHeight" ELSE WalkerFrom(3))
    /\ UNCHANGED <<cfgVars, lockVars, walked, earliestBlock, chainHeight, dbOpen,
                   dbBlocks, dbEvents,
                   dbLatestBlocks, dbEntriesNil, cycle, ctxDone, to, mdBlocks, failed, mdTxs,
                   evtVars, blkHist, overrideApplied, txCalls, evtHist>>

\* ------------------------------------------------------------ event walker

\* Lexicographic order of events <<block, index>>.
EvLess(a, b) == a[1] < b[1] \/ (a[1] = b[1] /\ a[2] < b[2])

RECURSIVE SortEvents(_)
SortEvents(S) ==
    IF S = {} THEN <<>>
    ELSE LET m == CHOOSE x \in S : \A y \in S : y = x \/ EvLess(x, y)
         IN <<m>> \o SortEvents(S \ {m})

\* The Events Provider: the logs of blocks from..to that the chain holds at
\* its current height, ascending by block then index.
Events(from, upto) ==
    SortEvents({e \in chainLog : from <= e[1] /\ e[1] <= upto /\ e[1] <= chainHeight})

\* A dedup that dispatches the event at the cursor again.
AlreadyHandledStrict(e, fromB, fromIdx) == e[1] = fromB /\ I32(e[2]) < fromIdx

\* A dedup that compares the index in every block, not only the cursor's.
AlreadyHandledAnyBlock(e, fromB, fromIdx) == I32(e[2]) <= fromIdx

\* This event has already been handled.
AlreadyHandled(e, fromB, fromIdx) == e[1] = fromB /\ I32(e[2]) <= fromIdx

\* The dispatch loop of pollEventsForTrigger from the i-th event on.  bad is
\* the event the handler returns an error for (<<>>: none); lb, li are
\* latestBlock and latestEventIndex so far.
RECURSIVE DispatchEvents(_, _, _, _, _, _, _, _)
DispatchEvents(name, evs, i, fromB, fromIdx, lb, li, bad) ==
    IF i > Len(evs)
    THEN [err |-> FALSE, latestBlock |-> lb, latestEventIndex |-> li, calls |-> <<>>]
    ELSE IF AlreadyHandled(evs[i], fromB, fromIdx)
    THEN DispatchEvents(name, evs, i + 1, fromB, fromIdx, lb, li, bad)
    ELSE IF bad = <<evs[i]>>
    THEN [err |-> TRUE, latestBlock |-> lb, latestEventIndex |-> li,
          calls |-> << [name |-> name, ev |-> evs[i], ok |-> FALSE] >>]
    ELSE LET r == DispatchEvents(name, evs, i + 1, fromB, fromIdx,
                                 evs[i][1], I32(evs[i][2]), bad)
         IN [r EXCEPT !.calls = << [name |-> name, ev |-> evs[i], ok |-> TRUE] >> \o @]

\* resolveSourceFromTrigger: only a resolver can fail; a trigger with neither
\* resolver nor static source gets a nil source and no error.
ResolveFails(trigger, resolveOk) == trigger.Source = "resolver" /\ ~resolveOk

\* pollEventsForTrigger: the cursor it returns, with what it did.
PollEventsForTrigger(trigger, fromB, fromIdx, toB, resolveOk, queryOk, bad) ==
    IF ResolveFails(trigger, resolveOk)
    THEN [latestBlock |-> fromB, latestEventIndex |-> fromIdx, state |-> "resolveErr",
          queried |-> FALSE, events |-> <<>>, calls |-> <<>>]
    ELSE IF ~queryOk
    THEN [latestBlock |-> fromB, latestEventIndex |-> fromIdx, state |-> "queryErr",
          queried |-> TRUE, events |-> <<>>, calls |-> <<>>]
    ELSE LET evs == Events(fromB, toB)
             r == DispatchEvents(trigger.Name, evs, 1, fromB, fromIdx, fromB, fromIdx, bad)
         IN IF r.err
            THEN [latestBlock |-> r.latestBlock, latestEventIndex |-> r.latestEventIndex,
                  state |-> "handlerErr", queried |-> TRUE, events |-> evs,
                  calls |-> r.calls]
            ELSE [latestBlock |-> U32(toB + 1), latestEventIndex |-> -1,
                  state |-> "ok", queried |-> TRUE, events |-> evs, calls |-> r.calls]

\* A walker that starts every window at the trigger's earliest block.
CursorOfEarliest(md, trigger) == [block |-> trigger.EarliestBlock, index |-> -1]

\* A walker that raises the block of a persisted cursor to the trigger's
\* earliest block and keeps its event index.
CursorOfKeepIndex(md, trigger) ==
    IF trigger.Name \in DOMAIN md
    THEN [block |-> IF md[trigger.Name].LatestBlock >= trigger.EarliestBlock
                    THEN md[trigger.Name].LatestBlock
                    ELSE trigger.EarliestBlock,
          index |-> md[trigger.Name].LatestEventIndex]
    ELSE [block |-> trigger.EarliestBlock, index |-> -1]

\* The cursor of a trigger: its persisted entry when that is at or above the
\* trigger's earliest block, else the earliest block and no event.
CursorOf(md, trigger) ==
    IF trigger.Name \in DOMAIN md /\ md[trigger.Name].LatestBlock >= trigger.EarliestBlock
    THEN [block |-> md[trigger.Name].LatestBlock, index |-> md[trigger.Name].LatestEventIndex]
    ELSE [block |-> trigger.EarliestBlock, index |-> -1]

\* The entry pollEvents adds for a trigger that has none.
WithEntry(md, trigger) ==
    IF trigger.Name \in DOMAIN md THEN md
    ELSE MapSet(md, trigger.Name,
                [LatestBlock |-> trigger.EarliestBlock, LatestEventIndex |-> -1])

\* A walker that queries whatever the cursor.
NothingToDoNever(fromB, toB) == FALSE

\* Nothing to fetch for this trigger.
NothingToDo(fromB, toB) == fromB > toB

\* The window clamp: toBlock after the test against maxBlocksForEvents.
ClampTo(fromB, toB) ==
    IF U32(toB + 1 - fromB) > maxBlocksForEvents
    THEN U32(fromB + maxBlocksForEvents - 1)
    ELSE toB

\* A migration that gives the migrated entries the event index 0.
getEventsMetadataIndexZero(latestBlocks, entriesNil, entries) ==
    IF entriesNil
    THEN [LatestBlocks |-> EmptyMap,
          Entries |-> [n \in DOMAIN latestBlocks |->
                         [LatestBlock |-> latestBlocks[n], LatestEventIndex |-> 0]]]
    ELSE [LatestBlocks |-> latestBlocks, Entries |-> entries]

\* getEventsMetadata on a stored document: without an "entries" member the
\* entries are made from the deprecated map, one per name with its height
\* and the event index -1, and the deprecated map is dropped.
getEventsMetadata(latestBlocks, entriesNil, entries) ==
    IF entriesNil
    THEN [LatestBlocks |-> EmptyMap,
          Entries |-> [n \in DOMAIN latestBlocks |->
                         [LatestBlock |-> latestBlocks[n], LatestEventIndex |-> -1]]]
    ELSE [LatestBlocks |-> latestBlocks, Entries |-> entries]

\* pollEvents up to the loop: getEventsMetadata.
PollEvents ==
    /\ pc = "pollEvents"
    /\ StoreAccess
    /\ walked' = Append(walked, "events")
    /\ \E getOk \in StoreOutcomes :
        IF ~(dbOpen /\ getOk)
        THEN /\ pc' = "idle"
             /\ ReturnError("events")
             /\ UNCHANGED <<mdEvents, mdLatestBlocks, toBlock, ti, migratedFrom>>
        ELSE /\ NoError
             /\ LET res == getEventsMetadata(dbLatestBlocks, dbEntriesNil, dbEvents)
                IN  /\ mdEvents' = res.Entries
                    /\ mdLatestBlocks' = res.LatestBlocks
             /\ migratedFrom' = (IF dbEntriesNil
                                 THEN dbLatestBlocks @@ migratedFrom
                                 ELSE migratedFrom)
             /\ toBlock' = to
             /\ ti' = 1
             /\ pc' = "evTrigger"
    /\ UNCHANGED <<cfgVars, lockVars, earliestBlock, chainHeight, dbOpen, dbBlocks,
                   dbTxs, dbEvents,
                   dbLatestBlocks, dbEntriesNil, cycle, ctxDone, to, blkVars, mdTxs, fromBlock,
                   fromEventIndex, events, latestBlock, latestEventIndex, blkHist,
                   overrideApplied, txCalls, evCalls, evQueries, evHandled, evWindow,
                   evPending>>

\* One trigger of the loop, up to the update of its entry in md.
PollEventsTrigger ==
    /\ pc = "evTrigger"
    /\ LET trigger == eventTriggers[ti]
           name == trigger.Name
           cur == CursorOf(mdEvents, trigger)
           md1 == WithEntry(mdEvents, trigger)
       IN
       /\ fromBlock' = cur.block
       /\ fromEventIndex' = cur.index
       /\ IF NothingToDo(cur.block, toBlock)
          THEN /\ mdEvents' = md1
               /\ pc' = "idle"
               /\ ti' = ti
               /\ evWindow' = [evWindow EXCEPT ![name] =
                      [from |-> cur.block, idx |-> cur.index, to |-> toBlock,
                       state |-> "nothing"]]
               /\ UNCHANGED <<toBlock, events, latestBlock, latestEventIndex, evCalls,
                              evQueries, evHandled>>
          ELSE \E resolveOk \in BOOLEAN, queryOk \in BOOLEAN,
                  bad \in {<<>>} \cup {<<e>> : e \in chainLog} :
               LET toB == ClampTo(cur.block, toBlock)
                   r == PollEventsForTrigger(trigger, cur.block, cur.index, toB,
                                             resolveOk, queryOk, bad)
               IN
               \* one choice for each distinct outcome
               /\ (trigger.Source # "resolver") => resolveOk
               /\ ~resolveOk => queryOk
               /\ (~queryOk \/ ~resolveOk) => bad = <<>>
               /\ (bad # <<>>) => (r.state = "handlerErr")
               /\ toBlock' = toB
               /\ events' = r.events
               /\ latestBlock' = r.latestBlock
               /\ latestEventIndex' = r.latestEventIndex
               /\ mdEvents' = MapSet(md1, name, [LatestBlock |-> r.latestBlock,
                                                 LatestEventIndex |-> r.latestEventIndex])
               /\ evCalls' = evCalls \o r.calls
               /\ evQueries' = (IF r.queried
                                THEN Append(evQueries, [name |-> name, from |-> cur.block,
                                                        to |-> toB])
                                ELSE evQueries)
               /\ evHandled' = [evHandled EXCEPT ![name] =
                      @ \o [k \in 1..Len(SelectSeq(r.calls, LAMBDA c : c.ok)) |->
                              SelectSeq(r.calls, LAMBDA c : c.ok)[k].ev]]
               /\ evWindow' = [evWindow EXCEPT ![name] =
                      [from |-> cur.block, idx |-> cur.index, to |-> toB,
                       state |-> r.state]]
               /\ pc' = "evSet"
               /\ ti' = ti
    /\ NoError
    /\ UNCHANGED <<cfgVars, lockVars, walked, closedUse, earliestBlock, chainHeight,
                   dbOpen, dbBlocks, dbTxs, dbEvents,
                   dbLatestBlocks, dbEntriesNil, cycle, ctxDone, to, blkVars,
                   mdTxs, mdLatestBlocks, blkHist, overrideApplied, txCalls, evPending,
                   migratedFrom>>

\* setEventsMetadata after the trigger, then the next trigger of the loop.
PollEventsSet ==
    /\ pc = "evSet"
    /\ StoreAccess
    /\ \E setOk \in StoreOutcomes :
        IF ~(dbOpen /\ setOk)
        THEN /\ pc' = "idle"
             /\ ReturnError("events")
             /\ UNCHANGED <<dbEvents, dbLatestBlocks, dbEntriesNil, ti>>
        ELSE /\ NoError
             /\ dbEvents' = mdEvents
             /\ dbLatestBlocks' = mdLatestBlocks
             /\ dbEntriesNil' = FALSE
             /\ ti' = ti + 1
             /\ pc' = (IF ti + 1 > Len(eventTriggers) THEN "idle" ELSE "evTrigger")
    /\ UNCHANGED <<cfgVars, lockVars, walked, earliestBlock, chainHeight, dbOpen,
                   dbBlocks, dbTxs, cycle, ctxDone, to, blkVars, mdTxs, mdEvents,
                   mdLatestBlocks,
                   toBlock, fromBlock, fromEventIndex, events, latestBlock,
                   latestEventIndex, blkHist, overrideApplied, txCalls, evtHist>>

\* ------------------------------------------------ cancellation and shutdown

storeVars == <<dbBlocks, dbTxs, dbEvents, dbLatestBlocks, dbEntriesNil>>

\* What the poll task owns, its position apart.
pollVars == <<earliestBlock, chainHeight, cycle, to, failures, blkVars, mdTxs,
              evtVars, blkHist, overrideApplied, txCalls, evtHist, errs, walked,
              closedUse>>

\* The context of New is cancelled.
Cancel ==
    /\ ~ctxDone
    /\ ctxDone' = TRUE
    /\ UNCHANGED <<cfgVars, lockVars, dbOpen, storeVars, pc, pollVars>>

\* The closing goroutine after <-ctx.Done(): it takes the mutex and closes
\* the handle.
CloseBegin ==
    /\ ctxDone
    /\ ~dbClosed
    /\ MutexFree
    /\ mu' = "closer"
    /\ dbClosed' = TRUE
    /\ UNCHANGED <<cfgVars, dbOpen, storeVars, pc, ctxDone, pollVars>>

\* The closing goroutine: metadataDBOpen.Store(false), then Unlock.
CloseEnd ==
    /\ mu = "closer"
    /\ dbOpen' = FALSE
    /\ mu' = "free"
    /\ UNCHANGED <<cfgVars, dbClosed, storeVars, pc, ctxDone, pollVars>>

\* A listener that never takes the ctx.Done() case.
ListenerNeverDone ==
    /\ FALSE
    /\ UNCHANGED vars

\* listener: the select after the first poll takes the ctx.Done() case and
\* the task returns.  (The timer case is Poll: the timer may be ready at the
\* same time, and select then picks either.)
ListenerDone ==
    /\ pc = "idle"
    /\ cycle >= 1
    /\ ctxDone
    /\ pc' = "done"
    /\ UNCHANGED <<cfgVars, lockVars, dbOpen, storeVars, ctxDone, pollVars>>

\* ------------------------------------------------------------ construction

\* A nil Handler of a trigger.
NoHandler == "nil"

\* checkTriggerParameters: every trigger has a name and a handler.
checkTriggerParameters ==
    /\ \A i \in 1..Len(blockTriggers) :
         blockTriggers[i].Name # "" /\ blockTriggers[i].Handler # NoHandler
    /\ \A i \in 1..Len(txTriggers) :
         txTriggers[i].Name # "" /\ txTriggers[i].Handler # NoHandler
    /\ \A i \in 1..Len(eventTriggers) :
         eventTriggers[i].Name # "" /\ eventTriggers[i].Handler # NoHandler

\* New: the parameters are checked, the providers set up and the store
\* opened (any of which may fail: setupOk); then the store is noted open and
\* the listener is started.
New ==
    /\ pc = "new"
    /\ \E setupOk \in BOOLEAN :
        IF checkTriggerParameters /\ setupOk
        THEN /\ pc' = "idle"
             /\ dbOpen' = TRUE
        ELSE /\ pc' = "failed"
             /\ dbOpen' = dbOpen
    /\ UNCHANGED <<cfgVars, lockVars, storeVars, ctxDone, pollVars>>

\* ---------------------------------------------------------- initial states

BlockTrigger(name, earliest, handler) ==
    [Name |-> name, EarliestBlock |-> earliest, Handler |-> handler]

BlockTriggerA == BlockTrigger("A", 0, "handler")

BlockTriggerB == BlockTrigger("B", 1, "handler")

TxTrigger(name, from, recipient, earliest) ==
    [Name |-> name, From |-> from, To |-> recipient, EarliestBlock |-> earliest,
     Handler |-> "handler"]

TxTriggerT == TxTrigger("T", NoAddress, NoAddress, 1)

Tx(from, recipient) == [From |-> from, To |-> recipient]

\* A chain whose blocks above genesis hold one transaction each.
OneTxPerBlock(heights) ==
    [h \in heights |-> IF h = 0 THEN <<>> ELSE << Tx("a", "b") >>]

\* The maps a store can hold from earlier runs of the service: any subset of
\* the trigger names (a trigger may be registered later than another), each
\* at a height of the chain so far.
StoredBlocks(names, heights) ==
    UNION {[S -> heights] : S \in SUBSET names}

\* The poll task and the observations before the first poll.
InitPoll ==
    /\ dbClosed = FALSE
    /\ mu = "free"
    /\ failures = 0
    /\ errs = <<>>
    /\ walked = <<>>
    /\ closedUse = FALSE
    /\ cycle = 0
    /\ ctxDone = FALSE
    /\ to = 0
    /\ chainHeight = Min(horizon)
    /\ mdBlocks = EmptyMap
    /\ height = 0
    /\ failed = {}
    /\ mdTxs = -1
    /\ mdEvents = EmptyMap
    /\ mdLatestBlocks = EmptyMap
    /\ migratedFrom = EmptyMap
    /\ toBlock = 0
    /\ ti = 1
    /\ fromBlock = 0
    /\ fromEventIndex = -1
    /\ events = <<>>
    /\ latestBlock = 0
    /\ latestEventIndex = -1
    /\ blockCalls = {}
    /\ blocksFrom = -1
    /\ blocksDone = FALSE
    /\ pendingFail = [n \in Names(blockTriggers) |-> -1]
    /\ overrideApplied = -1
    /\ txCalls = <<>>
    /\ evCalls = <<>>
    /\ evQueries = <<>>
    /\ evHandled = [n \in Names(eventTriggers) |-> <<>>]
    /\ evWindow = [n \in Names(eventTriggers) |-> NoWindow]
    /\ evPending = [n \in Names(eventTriggers) |-> <<>>]

\* What a started service begins with: the task idle before its first poll,
\* the store open, nothing observed yet.
InitTask ==
    /\ dbOpen = TRUE
    /\ pc = "idle"
    /\ InitPoll

\* Block and transaction triggers on a short chain, with or without an
\* earliest-block override, on a store that may hold earlier watermarks.
InitBlocks ==
    /\ \/ /\ blockTriggers = <<BlockTriggerA, BlockTriggerB>>
          /\ txTriggers \in {<<>>, <<TxTriggerT>>}
       \/ /\ blockTriggers = <<>>
          /\ txTriggers = <<TxTriggerT>>
    /\ eventTriggers = <<>>
    /\ blockDelay = 1
    /\ blockSpecifier \in {"", "latest"}
    /\ earliestBlock \in {-1, 0, 1}
    /\ horizon = 0..MaxHeight
    /\ chainLog = {}
    /\ chainTxs = OneTxPerBlock(horizon)
    /\ storeFaults = TRUE
    /\ monitor = FALSE
    /\ dbBlocks \in StoredBlocks(Names(blockTriggers), {0, 1})
    /\ dbTxs \in (IF txTriggers = <<>> THEN {<<>>} ELSE {<<>>, <<0>>})
    /\ dbEvents = EmptyMap
    /\ dbLatestBlocks = EmptyMap
    /\ dbEntriesNil = FALSE
    /\ InitTask

NextBlocks ==
    \/ Poll
    \/ PollBlocks
    \/ PollBlocksHeight
    \/ PollBlocksSet
    \/ PollTxs
    \/ PollTxsHeight
    \/ PollTxsSet

SpecBlocks == InitBlocks /\ [][NextBlocks]_vars

EventTrigger(name, earliest, source) ==
    [Name |-> name, EarliestBlock |-> earliest, Source |-> source,
     Handler |-> "handler"]

Cursor(b, i) == [LatestBlock |-> b, LatestEventIndex |-> i]

\* The logs of the chain.  The genesis block holds no transaction, so no log.
FullLog == {<<1, 0>>, <<1, 1>>, <<150, 0>>, <<200, 2>>, <<200, 3>>, <<200, 4>>, <<201, 0>>}

\* Event triggers only: two triggers with different floors, in both orders
\* of who is ahead, or one trigger listening from genesis; a chain that is
\* young at the first poll and grows; a quiet or a busy contract; a fresh
\* store or one that holds the cursors of an earlier run.
InitEvents ==
    /\ blockTriggers = <<>>
    /\ txTriggers = <<>>
    /\ eventTriggers \in
         { <<EventTrigger("E", 50, "static"), EventTrigger("F", 100, "resolver")>>,
           <<EventTrigger("E", 300, "resolver"), EventTrigger("F", 100, "static")>>,
           <<EventTrigger("G", 0, "static")>>,
           <<EventTrigger("N", 1, "none")>> }
    /\ blockDelay = 2
    /\ blockSpecifier = ""
    /\ earliestBlock = -1
    /\ horizon = {1, 250, 1000}
    /\ chainLog \in {{}, FullLog}
    /\ chainTxs = <<>>
    /\ storeFaults = FALSE
    /\ monitor = FALSE
    /\ dbBlocks = EmptyMap
    /\ dbTxs = <<>>
    /\ dbLatestBlocks = EmptyMap
    /\ dbEntriesNil = FALSE
    /\ dbEvents \in {EmptyMap} \cup
         (IF Len(eventTriggers) = 2
          THEN {("E" :> Cursor(200, 3)) @@ ("F" :> Cursor(120, 5)),
                ("E" :> Cursor(200, 3)) @@ ("F" :> Cursor(249, -1))}
          ELSE {})
    /\ InitTask

NextEvents ==
    \/ Poll
    \/ PollEvents
    \/ PollEventsTrigger
    \/ PollEventsSet

SpecEvents == InitEvents /\ [][NextEvents]_vars

\* Event triggers on a store whose events metadata was written in the
\* deprecated shape (a height per trigger, for both triggers or for the
\* first only) or in the present one; the floor of E is below or above its
\* stored height.
InitMigrate ==
    /\ blockTriggers = <<>>
    /\ txTriggers = <<>>
    /\ eventTriggers \in
         { <<EventTrigger("E", 50, "static"), EventTrigger("F", 100, "resolver")>>,
           <<EventTrigger("E", 300, "static"), EventTrigger("F", 100, "static")>> }
    /\ blockDelay = 2
    /\ blockSpecifier = ""
    /\ earliestBlock = -1
    /\ horizon = {250, 1000}
    /\ chainLog \in {{}, FullLog}
    /\ chainTxs = <<>>
    /\ storeFaults = FALSE
    /\ monitor = FALSE
    /\ dbBlocks = EmptyMap
    /\ dbTxs = <<>>
    /\ \/ /\ dbEntriesNil = TRUE
          /\ dbEvents = EmptyMap
          /\ dbLatestBlocks \in {("E" :> 200) @@ ("F" :> 120), ("E" :> 200), EmptyMap}
       \/ /\ dbEntriesNil = FALSE
          /\ dbEvents = ("E" :> Cursor(200, 3)) @@ ("F" :> Cursor(120, 5))
          /\ dbLatestBlocks = EmptyMap
    /\ InitTask

SpecMigrate == InitMigrate /\ [][NextEvents]_vars

\* Two event triggers in either order over a chain that stays at height
\* 250: a fresh store, or the cursors of an earlier run in which one of the
\* triggers has caught up with the upper bound 248 and the other has not.
\* From each of these cursors two windows of 100 blocks reach the bound.
InitCatchUp ==
    /\ blockTriggers = <<>>
    /\ txTriggers = <<>>
    /\ eventTriggers \in
         { <<EventTrigger("E", 50, "static"), EventTrigger("F", 100, "resolver")>>,
           <<EventTrigger("F", 100, "resolver"), EventTrigger("E", 50, "static")>> }
    /\ blockDelay = 2
    /\ blockSpecifier = ""
    /\ earliestBlock = -1
    /\ horizon = {250}
    /\ chainLog \in {{}, FullLog}
    /\ chainTxs = <<>>
    /\ storeFaults = FALSE
    /\ monitor = FALSE
    /\ dbBlocks = EmptyMap
    /\ dbTxs = <<>>
    /\ dbLatestBlocks = EmptyMap
    /\ dbEntriesNil = FALSE
    /\ dbEvents \in {EmptyMap,
                     ("E" :> Cursor(249, -1)) @@ ("F" :> Cursor(120, 5)),
                     ("E" :> Cursor(200, 3)) @@ ("F" :> Cursor(249, -1))}
    /\ InitTask

\* The event walker with its scheduling: the interval elapses and every
\* call of a cycle returns.
SpecCatchUp ==
    /\ InitCatchUp
    /\ [][NextEvents]_vars
    /\ WF_vars(NextEvents)

\* Three event triggers, the first with a resolver: a fresh store, or the
\* cursors of an earlier run in which the second trigger has caught up with
\* the chain at height 250.
InitResolve ==
    /\ blockTriggers = <<>>
    /\ txTriggers = <<>>
    /\ eventTriggers = <<EventTrigger("E", 50, "resolver"),
                          EventTrigger("F", 100, "static"),
                          EventTrigger("G", 0, "static")>>
    /\ blockDelay = 2
    /\ blockSpecifier = ""
    /\ earliestBlock = -1
    /\ horizon = {250, 1000}
    /\ chainLog \in {{}, FullLog}
    /\ chainTxs = <<>>
    /\ storeFaults = FALSE
    /\ monitor = FALSE
    /\ dbBlocks = EmptyMap
    /\ dbTxs = <<>>
    /\ dbLatestBlocks = EmptyMap
    /\ dbEntriesNil = FALSE
    /\ dbEvents \in {EmptyMap,
                     ("E" :> Cursor(200, 3)) @@ ("F" :> Cursor(249, -1))
                       @@ ("G" :> Cursor(120, 5))}
    /\ InitTask

SpecResolve == InitResolve /\ [][NextEvents]_vars

\* The whole service: any combination of trigger kinds on a fresh store, no
\* block delay, a registered failures metric, a store that fails only by
\* being closed, and the context cancelled at any moment, before the first
\* poll included.
InitService ==
    /\ blockTriggers \in {<<>>, <<BlockTriggerA>>}
    /\ txTriggers \in {<<>>, <<TxTriggerT>>}
    /\ eventTriggers \in {<<>>, <<EventTrigger("G", 0, "static")>>}
    /\ Len(blockTriggers) + Len(txTriggers) + Len(eventTriggers) > 0
    /\ blockDelay = 0
    /\ blockSpecifier = ""
    /\ earliestBlock = -1
    /\ horizon = {1, 2}
    /\ chainLog = {<<1, 0>>}
    /\ chainTxs = OneTxPerBlock(horizon)
    /\ storeFaults = FALSE
    /\ monitor = TRUE
    /\ dbBlocks = EmptyMap
    /\ dbTxs = <<>>
    /\ dbEvents = EmptyMap
    /\ dbLatestBlocks = EmptyMap
    /\ dbEntriesNil = FALSE
    /\ InitTask

NextService ==
    \/ Poll
    \/ PollBlocks
    \/ PollBlocksHeight
    \/ PollBlocksSet
    \/ PollTxs
    \/ PollTxsHeight
    \/ PollTxsSet
    \/ PollEvents
    \/ PollEventsTrigger
    \/ PollEventsSet
    \/ Cancel
    \/ CloseBegin
    \/ CloseEnd
    \/ ListenerDone

SpecService == InitService /\ [][NextService]_vars

\* The steps of a poll cycle after its start: provider calls, handler calls
\* and store accesses.
WalkerStep ==
    \/ PollBlocks
    \/ PollBlocksHeight
    \/ PollBlocksSet
    \/ PollTxs
    \/ PollTxsHeight
    \/ PollTxsSet
    \/ PollEvents
    \/ PollEventsTrigger
    \/ PollEventsSet

\* A service with one trigger of each kind over a chain of one block.
InitLive ==
    /\ blockTriggers = <<BlockTriggerA>>
    /\ txTriggers = <<TxTriggerT>>
    /\ eventTriggers = <<EventTrigger("G", 0, "static")>>
    /\ blockDelay = 0
    /\ blockSpecifier = ""
    /\ earliestBlock = -1
    /\ horizon = {1}
    /\ chainLog = {<<1, 0>>}
    /\ chainTxs = OneTxPerBlock(horizon)
    /\ storeFaults = FALSE
    /\ monitor = TRUE
    /\ dbBlocks = EmptyMap
    /\ dbTxs = <<>>
    /\ dbEvents = EmptyMap
    /\ dbLatestBlocks = EmptyMap
    /\ dbEntriesNil = FALSE
    /\ InitTask

\* The service with its scheduling: the interval elapses, handlers and
\* providers return, the closing goroutine releases the mutex it took, and a
\* listener that waits in select with the context done returns.
SpecLive ==
    /\ InitLive
    /\ [][NextService]_vars
    /\ WF_vars(Poll)
    /\ WF_vars(WalkerStep)
    /\ WF_vars(CloseEnd)
    /\ WF_vars(ListenerDone)

\* A chain with several transactions in a block: two transactions with the
\* same sender and recipient in block 1, none from a to b in block 2.
BusyChain(heights) ==
    [h \in heights |->
        CASE h = 0 -> <<>>
          [] h = 1 -> << Tx("a", "b"), Tx("b", "a"), Tx("a", "b") >>
          [] h = 2 -> << Tx("a", "a"), Tx("b", "b") >>
          [] OTHER -> << Tx("b", "a"), Tx("a", "b") >>]

\* Transaction triggers only: trigger T listening from genesis with any
\* combination of the two filters, and trigger U for the transactions to a
\* from block 2 on; a fresh store or one persisted at height 0; with or
\* without an earliest-block override.
InitTxs ==
    /\ blockTriggers = <<>>
    /\ txTriggers \in
         { <<TxTrigger("T", f, t, 0), TxTrigger("U", NoAddress, "a", 2)>> :
             f \in {NoAddress, "a"}, t \in {NoAddress, "b"} }
    /\ eventTriggers = <<>>
    /\ blockDelay = 1
    /\ blockSpecifier \in {"", "latest"}
    /\ earliestBlock \in {-1, 1}
    /\ horizon = 0..MaxHeight
    /\ chainLog = {}
    /\ chainTxs \in {OneTxPerBlock(horizon), BusyChain(horizon)}
    /\ storeFaults = TRUE
    /\ monitor = FALSE
    /\ dbBlocks = EmptyMap
    /\ dbTxs \in {<<>>, <<0>>}
    /\ dbEvents = EmptyMap
    /\ dbLatestBlocks = EmptyMap
    /\ dbEntriesNil = FALSE
    /\ InitTask

NextTxs ==
    \/ Poll
    \/ PollTxs
    \/ PollTxsHeight
    \/ PollTxsSet

SpecTxs == InitTxs /\ [][NextTxs]_vars

\* Construction: the parameters given to New hold two block triggers, which
\* may have the same name, and the second of which may lack a name or a
\* handler; the store is not open before New.
InitNew ==
    /\ blockTriggers \in
         { <<BlockTriggerA, BlockTriggerB>>,
           <<BlockTriggerA, BlockTrigger("A", 1, "handler")>>,
           <<BlockTriggerA, BlockTrigger("", 1, "handler")>>,
           <<BlockTriggerA, BlockTrigger("B", 1, NoHandler)>> }
    /\ txTriggers = <<>>
    /\ eventTriggers = <<>>
    /\ blockDelay = 0
    /\ blockSpecifier = ""
    /\ earliestBlock = -1
    /\ horizon = 0..MaxHeight
    /\ chainLog = {}
    /\ chainTxs = <<>>
    /\ storeFaults = TRUE
    /\ monitor = FALSE
    /\ dbBlocks \in StoredBlocks(Names(blockTriggers), {0})
    /\ dbTxs = <<>>
    /\ dbEvents = EmptyMap
    /\ dbLatestBlocks = EmptyMap
    /\ dbEntriesNil = FALSE
    /\ dbOpen = FALSE
    /\ pc = "new"
    /\ InitPoll

NextNew ==
    \/ New
    \/ Poll
    \/ PollBlocks
    \/ PollBlocksHeight
    \/ PollBlocksSet

SpecNew == InitNew /\ [][NextNew]_vars

\* ====================================================================
\* Properties of the block and transaction walkers (SpecBlocks)
\* ====================================================================

\* The watermark of a trigger in a blocks map: none (-1) when not stored.
Watermark(m, name) == IF name \in DOMAIN m THEN m[name] ELSE -1

FailedAt(name, h) == <<name, h, FALSE>> \in blockCalls

CalledAt(name) == {c[2] : c \in {d \in blockCalls : d[1] = name}}

\* C1: block-walker failure isolation.  In a walk over from..to that ran to
\* its end, if trigger A's handler failed at height h while trigger B's
\* handler succeeded at every height, then B's persisted watermark is to,
\* A's persisted watermark is h-1 and A was not called above h; and the
\* first call of a trigger in a later walk is at the height it last failed.
C1_BlockFailureIsolation ==
    /\ blocksDone =>
         \A A \in Names(blockTriggers), B \in Names(blockTriggers) :
           \A h \in CalledAt(A) :
             ( /\ FailedAt(A, h)
               /\ blocksFrom <= to
               /\ \A x \in blocksFrom..to : <<B, x, TRUE>> \in blockCalls )
             => /\ Watermark(dbBlocks, B) = to
                /\ Watermark(dbBlocks, A) = h - 1
                /\ \A x \in CalledAt(A) : x <= h
    /\ \A A \in Names(blockTriggers) :
         (pendingFail[A] # -1 /\ CalledAt(A) # {}) => Min(CalledAt(A)) = pendingFail[A]

\* C7: the persisted block watermark of every trigger name and the persisted
\* transaction watermark never decrease, except in the cycle that applies
\* the earliest-block override.
C7_BlockTxMonotonic ==
    [][ overrideApplied' = -1 =>
          /\ \A n \in DOMAIN dbBlocks :
               n \in DOMAIN dbBlocks' /\ dbBlocks'[n] >= dbBlocks[n]
          /\ TxLatestBlock(dbTxs') >= TxLatestBlock(dbTxs) ]_vars

\* C7 witness: in a cycle without override both a block trigger and the
\* transaction walker have persisted height 2, a block trigger having failed
\* along the way.
C7_Witness ==
    /\ overrideApplied = -1
    /\ cycle >= 2
    /\ dbTxs = <<2>>
    /\ \E n \in DOMAIN dbBlocks : dbBlocks[n] = 2 /\ <<n, 2, TRUE>> \in blockCalls
    /\ \E n \in DOMAIN pendingFail : pendingFail[n] # -1

\* C9: override consumption.  The walk that applies override O starts at
\* height O with every block trigger rewound to O-1, so every block trigger
\* is run for block O; the override is cleared by that walk, and a walk
\* without override never holds a trigger below its persisted watermark.
C9_OverrideConsumption ==
    /\ (overrideApplied # -1 /\ pc = "blockSet" /\ height = overrideApplied)
         => /\ blocksFrom = overrideApplied
            /\ \A n \in Names(blockTriggers) : height \in CalledAt(n)
    /\ (overrideApplied # -1) => earliestBlock = -1
    /\ (overrideApplied = -1 /\ pc \in {"blockHeight", "blockSet"})
         => \A n \in DOMAIN dbBlocks : n \in DOMAIN mdBlocks /\ mdBlocks[n] >= dbBlocks[n]

\* ====================================================================
\* Properties of the event walker (SpecEvents)
\* ====================================================================

\* The entry of trigger n written by this cycle has reached the store.
Persisted(n) == ~(pc = "evSet" /\ eventTriggers[ti].Name = n)

\* The events of a sequence of HandleEvent calls.
EventsOf(cs) == [k \in 1..Len(cs) |-> cs[k].ev]

\* C2: event handler error.  When the handler of a trigger fails on event e
\* of its window, e is the last event dispatched to the trigger in the cycle
\* and every earlier dispatch succeeded; the persisted cursor is the last
\* event handled successfully in the window, or the window's starting cursor
\* when none was; and the first event dispatched to the trigger afterwards
\* is e.
C2_EventHandlerError ==
    \A n \in Names(eventTriggers) :
      LET cs == CallsOf(n)
          oks == SelectSeq(cs, LAMBDA c : c.ok)
      IN /\ evWindow[n].state = "handlerErr"
              => /\ cs # <<>>
                 /\ ~cs[Len(cs)].ok
                 /\ Len(oks) = Len(cs) - 1
                 /\ Persisted(n)
                      => dbEvents[n] =
                           (IF oks # <<>>
                            THEN Cursor(oks[Len(oks)].ev[1], oks[Len(oks)].ev[2])
                            ELSE Cursor(evWindow[n].from, evWindow[n].idx))
         /\ (evPending[n] # <<>> /\ cs # <<>>) => cs[1].ev = evPending[n][1]

\* C2 witness: a trigger whose handler failed in an earlier cycle was given
\* the failed event first, handled it, and failed on a later event of the
\* window; its cursor is persisted.
C2_Witness ==
    \E n \in Names(eventTriggers) :
      /\ evPending[n] # <<>>
      /\ evWindow[n].state = "handlerErr"
      /\ Len(CallsOf(n)) >= 2
      /\ CallsOf(n)[1].ev = evPending[n][1]
      /\ pc = "idle"

\* C3: dedup at the window boundary.  The window starts at the persisted
\* cursor (fromBlock, fromEventIndex); of the events the provider returned,
\* those dispatched are the ones for which it is not the case that the block
\* equals fromBlock and the index is <= fromEventIndex, in provider order
\* (up to the first handler error, if any).
C3_DedupAtBoundary ==
    pc = "evSet" =>
      LET trigger == eventTriggers[ti]
          n == trigger.Name
          Survives(e) == ~(e[1] = fromBlock /\ e[2] <= fromEventIndex)
          survivors == SelectSeq(events, Survives)
          dispatched == EventsOf(CallsOf(n))
      IN /\ (n \in DOMAIN dbEvents /\ dbEvents[n].LatestBlock >= trigger.EarliestBlock)
              => /\ fromBlock = dbEvents[n].LatestBlock
                 /\ fromEventIndex = dbEvents[n].LatestEventIndex
         /\ evWindow[n].state = "ok" => dispatched = survivors
         /\ evWindow[n].state = "handlerErr"
              => /\ Len(dispatched) <= Len(survivors)
                 /\ dispatched = SubSeq(survivors, 1, Len(dispatched))
         /\ evWindow[n].state \in {"resolveErr", "queryErr"} => dispatched = <<>>

\* C3 witness: cursor (200,3), the provider returns (200,2), (200,3),
\* (200,4), (201,0), and (200,4) then (201,0) are dispatched.
C3_Witness ==
    /\ pc = "evSet"
    /\ eventTriggers[ti].Name \in DOMAIN dbEvents
    /\ dbEvents[eventTriggers[ti].Name] = Cursor(200, 3)
    /\ events = << <<200, 2>>, <<200, 3>>, <<200, 4>>, <<201, 0>> >>
    /\ EventsOf(CallsOf(eventTriggers[ti].Name)) = << <<200, 4>>, <<201, 0>> >>

\* C4: the events a trigger's handler returned success for, over all cycles,
\* contain no duplicates and leave out no event of the chain that lies
\* between two of them.
C4_NoDuplicatesContiguous ==
    \A n \in Names(eventTriggers) :
      LET hs == evHandled[n] IN
      /\ \A i \in 1..Len(hs), j \in 1..Len(hs) : i < j => hs[i] # hs[j]
      /\ \A i \in 1..(Len(hs) - 1) :
           ~ \E e \in chainLog : EvLess(hs[i], e) /\ EvLess(e, hs[i + 1])

\* C5: every event trigger is evaluated in every cycle the event walker
\* runs.  When the walker is back at rest, a trigger that had a handler error
\* or nothing to do has not kept any trigger after it in the registry from
\* being evaluated.
C5_EveryTriggerEvaluated ==
    pc = "idle" =>
      \A i \in 1..Len(eventTriggers), j \in 1..Len(eventTriggers) :
        (i < j /\ evWindow[eventTriggers[i].Name].state \in {"handlerErr", "nothing"})
          => evWindow[eventTriggers[j].Name].state # "none"

\* C6: the window of each event trigger is determined independently.  Every
\* query of a cycle with upper bound to (a height of the chain) has the range
\* [fromBlock, min(to, fromBlock + 99)], fromBlock being the trigger's own
\* cursor.
C6_IndependentWindow ==
    to <= chainHeight =>
      \A k \in 1..Len(evQueries) :
        LET q == evQueries[k] IN
        /\ q.from = evWindow[q.name].from
        /\ q.to = Min({to, q.from + maxBlocksForEvents - 1})

\* C8: the persisted cursor (LatestBlock, LatestEventIndex) of an event
\* trigger never decreases in lexicographic order, whatever the step.
C8_EventCursorMonotonic ==
    [][ \A n \in DOMAIN dbEvents :
          /\ n \in DOMAIN dbEvents'
          /\ \/ dbEvents'[n].LatestBlock > dbEvents[n].LatestBlock
             \/ /\ dbEvents'[n].LatestBlock = dbEvents[n].LatestBlock
                /\ dbEvents'[n].LatestEventIndex >= dbEvents[n].LatestEventIndex ]_vars

\* C8 witness: in one cycle a trigger's cursor moved within block 200 up to
\* the event before a handler error, and another trigger kept its cursor on a
\* resolver or provider error.
C8_Witness ==
    /\ pc = "idle"
    /\ \E n \in DOMAIN dbEvents :
         /\ evWindow[n].state = "handlerErr"
         /\ evWindow[n].from = 200 /\ evWindow[n].idx = 3
         /\ dbEvents[n] = Cursor(200, 4)
    /\ \E n \in DOMAIN dbEvents :
         /\ evWindow[n].state \in {"resolveErr", "queryErr"}
         /\ dbEvents[n] = Cursor(evWindow[n].from, evWindow[n].idx)

\* C10: progress on quiet ranges.  A fully successful window
\* [fromBlock, toBlock] sets the persisted cursor to (toBlock + 1, -1); and
\* when the chain has no events and the cycle's upper bound is at least a
\* window above the trigger's cursor, the cycle advances the trigger's
\* persisted LatestBlock by exactly 100.
C10_QuietProgress ==
    \A n \in Names(eventTriggers) :
      (evWindow[n].state = "ok" /\ Persisted(n))
        => /\ dbEvents[n] = Cursor(U32(evWindow[n].to + 1), -1)
           /\ ( /\ chainLog = {}
                /\ to <= chainHeight
                /\ to >= evWindow[n].from + maxBlocksForEvents )
                => dbEvents[n].LatestBlock = evWindow[n].from + maxBlocksForEvents

\* The event trigger of a name.
TriggerOf(n) == eventTriggers[CHOOSE i \in 1..Len(eventTriggers) : eventTriggers[i].Name = n]

\* C11: idempotent empty windows.  A trigger evaluated with fromBlock above
\* the cycle's upper bound has nothing to do and no query of the cycle is
\* for it; and no step of a cycle whose upper bound is below the cursor of a
\* trigger changes what the store holds for that trigger.
C11_IdempotentEmptyWindow ==
    /\ [](\A n \in Names(eventTriggers) :
            (evWindow[n].state # "none" /\ evWindow[n].from > to)
              => /\ evWindow[n].state = "nothing"
                 /\ \A k \in 1..Len(evQueries) : evQueries[k].name # n)
    /\ [][ \A n \in Names(eventTriggers) :
             (pc # "idle" /\ CursorOf(dbEvents, TriggerOf(n)).block > to)
               => /\ (n \in DOMAIN dbEvents') = (n \in DOMAIN dbEvents)
                  /\ n \in DOMAIN dbEvents => dbEvents'[n] = dbEvents[n] ]_vars

\* C11 witness: in a second or later cycle a trigger whose persisted cursor
\* is one above the upper bound had nothing to do, after another trigger of
\* the same cycle was queried and persisted.
C11_Witness ==
    \E n \in Names(eventTriggers) :
      /\ cycle >= 2
      /\ pc = "idle"
      /\ evWindow[n].state = "nothing"
      /\ n \in DOMAIN dbEvents
      /\ dbEvents[n] = Cursor(to + 1, -1)
      /\ evQueries # <<>>

\* C12: window clamp.  Every query of a cycle covers at most 100 blocks and
\* its toBlock does not exceed the cycle's upper bound.
C12_WindowClamp ==
    \A k \in 1..Len(evQueries) :
      /\ evQueries[k].to - evQueries[k].from + 1 <= maxBlocksForEvents
      /\ evQueries[k].to <= to

\* C16: Events Provider failure.  When the query for a trigger fails, the
\* cycle ends there: no later trigger of the registry is evaluated in the
\* cycle, and the failing trigger's cursor is the one its window started at.
C16_ProviderErrorAborts ==
    \A i \in 1..Len(eventTriggers) :
      LET n == eventTriggers[i].Name IN
      evWindow[n].state = "queryErr"
        => /\ \A j \in 1..Len(eventTriggers) :
                i < j => evWindow[eventTriggers[j].Name].state = "none"
           /\ Persisted(n)
                => CursorOf(dbEvents, eventTriggers[i]) =
                     [block |-> evWindow[n].from, index |-> evWindow[n].idx]

\* ====================================================================
\* Properties of the poll cycle, cancellation and shutdown
\* ====================================================================

\* The range selection of this cycle returned an error.
SelectFailed == errs # <<>> /\ errs[1] = "select"

\* A walker of this cycle returned an error.
WalkerFailed == \E k \in 1..Len(errs) : errs[k] # "select"

\* The walkers of the trigger kinds that have a trigger, in pollTo's order.
RegisteredWalkers ==
    (IF Len(blockTriggers) > 0 THEN <<"blocks">> ELSE <<>>)
    \o (IF Len(txTriggers) > 0 THEN <<"txs">> ELSE <<>>)
    \o (IF Len(eventTriggers) > 0 THEN <<"events">> ELSE <<>>)

\* C13: when the range selection returns an error, cancellation included, no
\* walker runs in that cycle: no watermark is read or written, no handler is
\* invoked and no Events query is issued.
C13_SelectErrorAbortsCycle ==
    SelectFailed
      => /\ pc \in {"idle", "done"}
         /\ walked = <<>>
         /\ blockCalls = {}
         /\ txCalls = <<>>
         /\ evCalls = <<>>
         /\ evQueries = <<>>

\* C14: in a cycle whose range selection succeeded the walkers of the
\* registered trigger kinds run in the order blocks, transactions, events,
\* one at a time: the walkers entered so far are a prefix of that list, the
\* task is in the last one entered, and at the end of the cycle all of them
\* have run.
C14_WalkersInOrder ==
    (cycle >= 1 /\ ~SelectFailed)
      => /\ Len(walked) <= Len(RegisteredWalkers)
         /\ walked = SubSeq(RegisteredWalkers, 1, Len(walked))
         /\ pc \in {"blockHeight", "blockSet"} => walked[Len(walked)] = "blocks"
         /\ pc \in {"txHeight", "txSet"} => walked[Len(walked)] = "txs"
         /\ pc \in {"evTrigger", "evSet"} => walked[Len(walked)] = "events"
         /\ pc \in {"idle", "done"} => walked = RegisteredWalkers

\* C14 witness: with all three kinds registered a cycle has run the three
\* walkers and each of them has invoked a handler.
C14_Witness ==
    /\ pc = "idle"
    /\ walked = <<"blocks", "txs", "events">>
    /\ blockCalls # {}
    /\ txCalls # <<>>
    /\ evCalls # <<>>

\* C15: after a block-fetch or store failure inside a walker no handler of
\* any kind is invoked and no Events query is issued in the rest of the
\* cycle.
C15_WalkerFailureAbortsCycle ==
    [][ (WalkerFailed /\ cycle' = cycle)
          => /\ blockCalls' = blockCalls
             /\ txCalls' = txCalls
             /\ evCalls' = evCalls
             /\ evQueries' = evQueries ]_vars

\* C17: no Get or Set is executed on the closed handle, and once the handle
\* is closed every access returns an error and the store keeps its content.
C17_NoAccessAfterClose ==
    /\ [](~closedUse)
    /\ [][ dbClosed
             => /\ UNCHANGED storeVars
                /\ ( /\ pc \in {"pollBlocks", "blockSet", "pollTxs", "txSet",
                                "pollEvents", "evSet"}
                     /\ pc' # pc )
                     => Len(errs') = Len(errs) + 1 ]_vars

\* C17 witness: the store was closed in the middle of a block walk: a
\* handler had succeeded and the write of its watermark was refused.
C17_Witness ==
    /\ ~dbOpen
    /\ dbClosed
    /\ errs = <<"blocks">>
    /\ \E c \in blockCalls : c[3] /\ Watermark(dbBlocks, c[1]) < c[2]

\* C18: once the context is cancelled no new poll cycle is started.
C18_NoCycleAfterCancel ==
    [][ cycle' # cycle => ~ctxDone ]_vars

\* C19: an error returned by the range selection or by a walker increments
\* the failure counter by one when the context is live and not at all when it
\* is cancelled; nothing else changes the counter, and a walker returns at
\* most one error per cycle.
C19_CancellationNotCounted ==
    /\ [](\A i \in 1..Len(errs), j \in 1..Len(errs) : i < j => errs[i] # errs[j])
    /\ [][ LET returned == \/ cycle' # cycle /\ errs' # <<>>
                           \/ cycle' = cycle /\ Len(errs') > Len(errs)
           IN failures' = failures + (IF returned /\ ~ctxDone THEN 1 ELSE 0) ]_vars

\* C19 witness: of two walker errors of one cycle the one returned before
\* the cancellation was counted, the one returned after it was not.
C19_Witness ==
    /\ ctxDone
    /\ Len(errs) = 2
    /\ ~SelectFailed
    /\ failures = 1

\* The heights a trigger's handler succeeded for in this walk and that the
\* store does not hold yet: what a restart would hand to it again.
Unpersisted(n) ==
    {c[2] : c \in {d \in blockCalls : d[1] = n /\ d[3] /\ d[2] > Watermark(dbBlocks, n)}}

StoredCursor(n) == CursorOf(dbEvents, TriggerOf(n))

\* The events a trigger's handler succeeded for in this cycle that lie above
\* the cursor the store holds for it: what a restart would dispatch again.
Redispatched(n) ==
    {k \in 1..Len(evCalls) :
        /\ evCalls[k].name = n
        /\ evCalls[k].ok
        /\ ~AlreadyHandled(evCalls[k].ev, StoredCursor(n).block, StoredCursor(n).index)
        /\ evCalls[k].ev[1] >= StoredCursor(n).block}

BlockTriggerOf(n) == blockTriggers[CHOOSE i \in 1..Len(blockTriggers) : blockTriggers[i].Name = n]

\* C22: the handler of a block trigger is never invoked for a block below
\* the trigger's EarliestBlock.
C22_BlockEarliestFloor ==
    \A c \in blockCalls : c[2] >= BlockTriggerOf(c[1]).EarliestBlock

\* C23: first run.  In a walk without override over a store that holds no
\* blocks watermark the walk starts at height 0, and once height 0 has been
\* handled every block trigger's handler has been invoked for it.
C23_FirstRunFromGenesis ==
    (pc \in {"blockHeight", "blockSet"} /\ overrideApplied = -1 /\ dbBlocks = EmptyMap)
      => /\ blocksFrom = 0
         /\ (pc = "blockSet" /\ height = 0)
              => \A n \in Names(blockTriggers) : 0 \in CalledAt(n)

\* C24: the starting height of a walk without override over a store that
\* holds at least one blocks watermark is the minimum of watermark + 1 over
\* the registered block triggers, a trigger without entry counting as -1.
\* (Until a handler has succeeded in the walk the store is as the walk found
\* it.)
C24_StartAtMinimum ==
    ( /\ blocksFrom # -1
      /\ overrideApplied = -1
      /\ dbBlocks # EmptyMap
      /\ \A c \in blockCalls : ~c[3] )
      => blocksFrom = Min({Watermark(dbBlocks, n) + 1 : n \in Names(blockTriggers)})

\* C25: in a cycle without override a block trigger's handler is invoked
\* only for heights above the trigger's persisted watermark, and at most once
\* per height: a call is for the height being handled, above what the store
\* holds for the trigger, and the trigger has not been called for that
\* height before in the cycle.
C25_NoReprocessing ==
    [][ overrideApplied = -1 =>
          \A c \in blockCalls' \ blockCalls :
            /\ c[2] = height
            /\ c[2] > Watermark(dbBlocks, c[1])
            /\ \A d \in blockCalls : ~(d[1] = c[1] /\ d[2] = c[2]) ]_vars

\* C25 witness: without override, trigger B, behind at height 0, is handed
\* block 1 while trigger A, persisted at height 1, is not called for it.
C25_Witness ==
    /\ pc = "blockSet"
    /\ overrideApplied = -1
    /\ height = 1
    /\ Watermark(dbBlocks, "A") = 1
    /\ Watermark(dbBlocks, "B") = 0
    /\ blockCalls = {<<"B", 1, TRUE>>}

\* C26: the override and the transaction walker.  When the transaction
\* walker has read its watermark, its first height is the override O that
\* was pending at the start of the cycle (still pending, or consumed by the
\* block walker earlier in the cycle), and watermark + 1 when none was; the
\* override is cleared by then, so no later cycle uses it.
C26_TxOverride ==
    [][ (pc = "pollTxs" /\ pc' # pc /\ errs' = errs)
          => LET O == IF earliestBlock # -1 THEN earliestBlock ELSE overrideApplied
             IN /\ height' = (IF O # -1 THEN O ELSE TxLatestBlock(dbTxs) + 1)
                /\ earliestBlock' = -1 ]_vars

\* C27: transaction dispatch filter.  The HandleTx calls made for the block
\* of a height are calls of registered triggers for transactions of that
\* block, and the handler of trigger T is called exactly once for the j-th
\* transaction when the height is not below T.EarliestBlock, the sender is
\* T.From (when set) and the recipient is T.To (when set), and not at all
\* otherwise.
C27_TxFilter ==
    [][ (pc = "txHeight" /\ pc' = "txSet")
          => LET new == SubSeq(txCalls', Len(txCalls) + 1, Len(txCalls'))
                 txs == Transactions(height)
             IN /\ \A k \in 1..Len(new) :
                     /\ new[k][1] \in Names(txTriggers)
                     /\ new[k][2] = height
                     /\ new[k][3] \in 1..Len(txs)
                /\ \A i \in 1..Len(txTriggers), j \in 1..Len(txs) :
                     LET T == txTriggers[i]
                         wanted == /\ height >= T.EarliestBlock
                                   /\ T.From # NoAddress => txs[j].From = T.From
                                   /\ T.To # NoAddress => txs[j].To = T.To
                     IN Cardinality({k \in 1..Len(new) : new[k] = <<T.Name, height, j>>})
                          = (IF wanted THEN 1 ELSE 0) ]_vars

\* C27 witness: trigger T with both filters set was called for the first
\* and the third transaction of block 1 (a to b), not for the second (b to
\* a), and trigger U, whose floor is block 2, was not called.
C27_Witness ==
    /\ pc = "txSet"
    /\ height = 1
    /\ txTriggers[1].From = "a"
    /\ txTriggers[1].To = "b"
    /\ Len(Transactions(1)) = 3
    /\ \E k \in 1..(Len(txCalls) - 1) :
         /\ k = Len(txCalls) - 1
         /\ txCalls[k] = <<"T", 1, 1>>
         /\ txCalls[k + 1] = <<"T", 1, 3>>

\* C28: the transaction walker.  The heights are handled in ascending order,
\* one by one, and the watermark is persisted after each; a walk that ends
\* without error ends at to with the persisted watermark equal to to; and
\* when the fetch of the block at height h fails the persisted watermark is
\* h - 1.
C28_TxWalk ==
    [][ /\ (pc = "txSet" /\ pc' = "txHeight")
             => /\ height' = height + 1
                /\ TxLatestBlock(dbTxs') = height
        /\ (pc = "txSet" /\ pc' \notin {"txSet", "txHeight"} /\ errs' = errs)
             => /\ height = to
                /\ TxLatestBlock(dbTxs') = to
        /\ (pc = "txHeight" /\ errs' # errs)
             => TxLatestBlock(dbTxs') = height - 1 ]_vars

\* C29: in delay mode (no block specifier) the upper bound a successful
\* range selection returns is the chain height less the block delay, and it
\* does not exceed the chain height.
C29_DelayBound ==
    [][ (cycle' # cycle /\ errs' = <<>> /\ blockSpecifier = "")
          => /\ to' = chainHeight' - blockDelay
             /\ to' <= chainHeight' ]_vars

\* The names of a trigger list are pairwise different.
UniqueNames(trigs) ==
    \A i \in 1..Len(trigs), j \in 1..Len(trigs) : i # j => trigs[i].Name # trigs[j].Name

\* C30: when two triggers of one kind have the same name the construction
\* fails and no poll cycle runs: a service that is started, or has polled,
\* has unique names within each kind.
C30_DuplicateNamesRejected ==
    ~(UniqueNames(blockTriggers) /\ UniqueNames(txTriggers) /\ UniqueNames(eventTriggers))
      => (pc \in {"new", "failed"} /\ cycle = 0)

\* ====================================================================
\* Properties of source resolution, cursors and catch-up
\* ====================================================================

\* C31: an event trigger with neither a static source nor a resolver is not
\* processed: its evaluation ends in an error, no Events query is issued for
\* it and its handler is not invoked.
C31_NoSourceIsError ==
    \A n \in Names(eventTriggers) :
      TriggerOf(n).Source = "none"
        => /\ evWindow[n].state \in {"none", "nothing", "resolveErr"}
           /\ \A k \in 1..Len(evQueries) : evQueries[k].name # n
           /\ CallsOf(n) = <<>>

\* C32: the poll task.  A cycle starts only when the task is at rest (cycles
\* do not overlap), the first one at startup whatever the state of the
\* context, and further ones follow as long as the context is live; after
\* cancellation the task eventually returns, and once it has returned it
\* has run the startup cycle and runs no further cycle.
C32_ListenerLifecycle ==
    /\ [][ cycle' # cycle => (pc = "idle" /\ cycle' = cycle + 1) ]_vars
    /\ [][ pc = "done" => (pc' = "done" /\ cycle' = cycle) ]_vars
    /\ [](pc = "done" => cycle >= 1)
    /\ <>(cycle >= 1)
    /\ <>(ctxDone \/ cycle = MaxCycles)
    /\ (ctxDone ~> pc = "done")

\* C32 witness: the task has returned after the startup cycle and a cycle
\* on the timer, the second of them interrupted by the closing of the store.
C32_Witness ==
    /\ pc = "done"
    /\ cycle = 2
    /\ ctxDone
    /\ errs # <<>>
    /\ ~dbOpen

\* C33: when the walker evaluates a trigger, its window starts at the
\* persisted (LatestBlock, LatestEventIndex) of the trigger if the store holds
\* an entry whose LatestBlock is at or above the trigger's earliest block, and
\* at (earliest block, -1) otherwise.
C33_CursorResolution ==
    [][ (pc = "evTrigger" /\ pc' # "evTrigger")
          => LET trigger == eventTriggers[ti]
                 n == trigger.Name
             IN  /\ evWindow'[n].from = fromBlock'
                 /\ evWindow'[n].idx = fromEventIndex'
                 /\ IF n \in DOMAIN dbEvents
                       /\ dbEvents[n].LatestBlock >= trigger.EarliestBlock
                    THEN /\ fromBlock' = dbEvents[n].LatestBlock
                         /\ fromEventIndex' = dbEvents[n].LatestEventIndex
                    ELSE /\ fromBlock' = trigger.EarliestBlock
                         /\ fromEventIndex' = -1 ]_vars

\* C33 witness: a trigger whose earliest block 300 is above its persisted
\* cursor (200, 3) has queried a window that starts at (300, -1).
C33_Witness ==
    /\ pc = "evSet"
    /\ eventTriggers[ti].Name = "E"
    /\ eventTriggers[ti].EarliestBlock = 300
    /\ dbEvents = ("E" :> Cursor(200, 3)) @@ ("F" :> Cursor(120, 5))
    /\ fromBlock = 300
    /\ fromEventIndex = -1
    /\ evWindow["E"].state = "ok"

\* C34: a successful read of the events metadata.  From a document in the
\* deprecated shape it yields one entry per name of the old map, with the old
\* height as LatestBlock and -1 as LatestEventIndex, and no old map; from a
\* document in the present shape it yields the stored entries.  A document
\* written afterwards holds no old map.
C34_Migration ==
    /\ [][ (pc = "pollEvents" /\ pc' = "evTrigger")
            => IF dbEntriesNil
               THEN /\ DOMAIN mdEvents' = DOMAIN dbLatestBlocks
                    /\ \A n \in DOMAIN dbLatestBlocks :
                         /\ mdEvents'[n].LatestBlock = dbLatestBlocks[n]
                         /\ mdEvents'[n].LatestEventIndex = -1
                    /\ mdLatestBlocks' = EmptyMap
               ELSE mdEvents' = dbEvents ]_vars
    /\ [](~dbEntriesNil => dbLatestBlocks = EmptyMap)

\* C34 witness: the walker has read the old map {E: 200, F: 120} and holds
\* the entries (200, -1) and (120, -1), the store still in the old shape.
C34_Witness ==
    /\ pc = "evTrigger"
    /\ ti = 1
    /\ dbEntriesNil
    /\ dbLatestBlocks = ("E" :> 200) @@ ("F" :> 120)
    /\ mdEvents = ("E" :> Cursor(200, -1)) @@ ("F" :> Cursor(120, -1))
    /\ mdLatestBlocks = EmptyMap

\* C35: a trigger whose entry was migrated from the height h of the old
\* format, under which the blocks up to h were dispatched in full, is not
\* handed an event of block h or of an earlier block.
C35_NoRedispatchAfterMigration ==
    \A n \in DOMAIN migratedFrom :
      \A k \in 1..Len(evCalls) :
        evCalls[k].name = n => evCalls[k].ev[1] > migratedFrom[n]

\* C36: block contiguity.  In a cycle without override, a step that changes
\* the persisted watermark of a registered block trigger raises it by one, to
\* a height the trigger's handler was invoked for successfully in the cycle;
\* a trigger without persisted watermark counts as being at -1.
C36_BlockContiguity ==
    [][ overrideApplied' = -1 =>
          \A n \in Names(blockTriggers) :
            Watermark(dbBlocks', n) # Watermark(dbBlocks, n)
              => /\ Watermark(dbBlocks', n) = Watermark(dbBlocks, n) + 1
                 /\ <<n, Watermark(dbBlocks', n), TRUE>> \in blockCalls' ]_vars

\* C37: the override is consumed only with a durable effect.  When a cycle
\* that applied the override O is over and its block walk invoked no handler
\* (nothing was persisted: O is above the cycle's upper bound, or the fetch of
\* block O failed), the override is still pending for a later cycle.
C37_OverrideDurable ==
    ( /\ pc = "idle"
      /\ overrideApplied # -1
      /\ blockTriggers # <<>>
      /\ blockCalls = {} )
      => earliestBlock = overrideApplied

\* A provider, a resolver or a handler has returned an error in this cycle.
SomeFailure ==
    \/ errs # <<>>
    \/ \E n \in Names(eventTriggers) :
         evWindow[n].state \in {"resolveErr", "queryErr", "handlerErr"}

\* C38: event catch-up.  With the upper bound fixed at T = 248, in a
\* behaviour in which no provider, resolver or handler ever fails, the
\* persisted cursor of every event trigger eventually is (T + 1, -1).
C38_EventCatchUp ==
    <>( \/ SomeFailure
        \/ \A n \in Names(eventTriggers) :
             n \in DOMAIN dbEvents /\ dbEvents[n] = Cursor(249, -1) )

\* Event e lies after the cursor (b, i).
EvAfter(e, b, i) == e[1] > b \/ (e[1] = b /\ e[2] > i)

C40_ResolverFailureIsolated ==
    \A i \in 1..Len(eventTriggers) :
      LET n == eventTriggers[i].Name IN
      evWindow[n].state = "resolveErr"
        => /\ \A k \in 1..Len(evQueries) : evQueries[k].name # n
           /\ CallsOf(n) = <<>>
           /\ Persisted(n)
                => CursorOf(dbEvents, eventTriggers[i]) =
                     [block |-> evWindow[n].from, index |-> evWindow[n].idx]
           /\ pc = "idle"
                => \A j \in 1..Len(eventTriggers) :
                     i < j => evWindow[eventTriggers[j].Name].state # "none"

====
